---- MODULE Spec2Model ----
(***************************************************************************)
(* RBAC layer of md-ashikur/rbac: the user-management route handlers       *)
(* (PUT / DELETE /api/admin/users), the permission grant / revoke          *)
(* handlers, and the dashboard's client-side decision functions.           *)
(*                                                                         *)
(* Seven specifications share the variables:                               *)
(*   Spec      the users route: the stores, sign-up and GET / PUT / DELETE *)
(*             /api/admin/users, one request handled at a time (each       *)
(*             action is one whole handler), over a grant table that a     *)
(*             super_admin filled earlier;                                 *)
(*   SpecPerm  the permission routes: grant and revoke;                    *)
(*   SpecReq   one request to any of the five handlers, against every      *)
(*             store state the schema admits;                              *)
(*   SpecDash  the dashboard component: its cached role and grants, and    *)
(*             the decision functions it evaluates on them;                *)
(*   SpecRace  two concurrent requests to PUT / DELETE /api/admin/users,   *)
(*             each store access of a handler a step of its own;           *)
(*   SpecGate  the dashboard's gates (role change, Delete button) on a     *)
(*             list just fetched from the server;                          *)
(*   SpecList  the dashboard's user list: handleRoleChange with its        *)
(*             optimistic update, and the realtime subscription.           *)
(*                                                                         *)
(* Conventions: a user id is a positive integer and 0 stands for a missing *)
(* (falsy) id or token; a role is a string and "none" stands for "no row   *)
(* in rbac_users"; a permission id is its position in the seed catalog and *)
(* 0 stands for a missing id.  The store is assumed available: the 500     *)
(* answers for a failing database call are not modelled, except the        *)
(* identity-provider deletion that DELETE tolerates.                       *)
(***************************************************************************)
EXTENDS Integers, FiniteSets, Sequences, TLC

VARIABLES
    rbac_users,              \* server: user id -> role, "none" when no row
    authUsers,               \* server: ids with an identity-provider account
    user_permissions,        \* server: set of grant rows
    now,                     \* server: the database clock, NOW() of the next insert
    lastReq,                 \* server: the last request handled and its answer
    authUserId,              \* dashboard: auth.user.id of the session
    currentUserRole,         \* dashboard: useState<Role>
    currentUserPermissions,  \* dashboard: permission ids of the cached grants
    dashReq,                 \* dashboard: the last decision evaluated
    inflight,                \* server: the requests being handled concurrently
    users,                   \* dashboard: useState<AppUser[]>, id -> role
    pending                  \* dashboard: the handleRoleChange call in flight

serverVars == <<rbac_users, authUsers, user_permissions, now, lastReq>>
dashVars == <<authUserId, currentUserRole, currentUserPermissions, dashReq>>
idleVars == <<inflight, users, pending>>
vars == <<rbac_users, authUsers, user_permissions, now, lastReq,
          authUserId, currentUserRole, currentUserPermissions, dashReq,
          inflight, users, pending>>

----------------------------------------------------------------------------
(* Bounds *)

NumUsers == 2
MaxGrants == 1

UserIds == 1..NumUsers

----------------------------------------------------------------------------
(* Reference data *)

Role == {"super_admin", "admin", "user", "moderator"}

\* The seed catalog; a permission's id is its index here.
permissions ==
    << "view_users", "create_users", "edit_users", "delete_users",
       "view_roles", "assign_user_role", "assign_moderator_role",
       "assign_admin_role", "assign_super_admin_role",
       "view_permissions", "grant_permissions", "revoke_permissions",
       "manage_admin_permissions", "manage_moderator_permissions",
       "access_admin_panel", "access_moderator_panel", "system_settings" >>

PermissionIds == DOMAIN permissions

PermissionNames == {permissions[i] : i \in PermissionIds}

RolePermissionsNoAssignModerator ==
    [r \in Role |->
        CASE r = "super_admin" -> {"*"}
          [] r = "admin" ->
                {"view_users", "create_users", "edit_users", "delete_users",
                 "view_roles", "assign_user_role",
                 "view_permissions", "grant_permissions", "revoke_permissions",
                 "manage_moderator_permissions", "access_admin_panel"}
          [] r = "moderator" ->
                {"view_users", "edit_users",
                 "view_roles", "assign_user_role",
                 "view_permissions", "access_moderator_panel"}
          [] r = "user" -> {"view_users", "view_roles"}]

rolePermissions ==
    [r \in Role |->
        CASE r = "super_admin" -> {"*"}
          [] r = "admin" ->
                {"view_users", "create_users", "edit_users", "delete_users",
                 "view_roles", "assign_user_role", "assign_moderator_role",
                 "view_permissions", "grant_permissions", "revoke_permissions",
                 "manage_moderator_permissions", "access_admin_panel"}
          [] r = "moderator" ->
                {"view_users", "edit_users",
                 "view_roles", "assign_user_role",
                 "view_permissions", "access_moderator_panel"}
          [] r = "user" -> {"view_users", "view_roles"}]

----------------------------------------------------------------------------
(* Decision functions.  The dashboard declares copies of hasPermission and *)
(* canManageRole that are textually identical to the route's.              *)

HasPermissionNoWildcard(userRole, permission) ==
    IF userRole \in DOMAIN rolePermissions
    THEN permission \in rolePermissions[userRole]
    ELSE FALSE

hasPermission(userRole, permission) ==
    IF userRole = "super_admin" THEN TRUE
    ELSE IF userRole \in DOMAIN rolePermissions
         THEN permission \in rolePermissions[userRole]
         ELSE FALSE

CanManageRoleByRank(currentRole, targetRole) ==
    LET rank == [r \in Role |->
                    CASE r = "user" -> 0 [] r = "moderator" -> 1
                      [] r = "admin" -> 2 [] r = "super_admin" -> 3]
    IN  currentRole \in Role /\ targetRole \in Role
        /\ rank[currentRole] >= rank[targetRole]
        /\ currentRole # "user"

canManageRole(currentRole, targetRole) ==
    IF currentRole = "super_admin" THEN TRUE
    ELSE IF currentRole = "admin"
         THEN targetRole # "super_admin" /\ targetRole # "admin"
         ELSE IF currentRole = "moderator"
              THEN targetRole = "user"
              ELSE FALSE

----------------------------------------------------------------------------
(* Server: /api/admin/users and the permission routes *)

\* What a route answers: the HTTP status and the error text ("" on success).
Response(status, error) == [status |-> status, error |-> error]

Ok == Response(200, "")

NullUser == [userId |-> 0, role |-> "none"]

GetCurrentUserRoleDefaultUser(token) ==
    IF token = 0 THEN NullUser
    ELSE IF token \notin authUsers THEN NullUser
    ELSE IF rbac_users[token] = "none" THEN [userId |-> token, role |-> "user"]
    ELSE [userId |-> token, role |-> rbac_users[token]]

\* getCurrentUserRole: null without a token, without an identity-provider
\* user for it, or without an rbac_users row for that user.
getCurrentUserRole(token) ==
    IF token = 0 THEN NullUser
    ELSE IF token \notin authUsers THEN NullUser
    ELSE IF rbac_users[token] = "none" THEN NullUser
    ELSE [userId |-> token, role |-> rbac_users[token]]

\* select('role').eq('id', userId).single(): the row's role, "none" if absent
TargetRole(userId) ==
    IF userId \in DOMAIN rbac_users THEN rbac_users[userId] ELSE "none"

RequestInit ==
    [op |-> "none", token |-> 0, actorRole |-> "none", userId |-> 0,
     role |-> "", permissionId |-> 0, targetRole |-> "none", res |-> Ok,
     users |-> {}]

Request(op, token, userId, role, permissionId, res) ==
    [op |-> op, token |-> token,
     actorRole |-> getCurrentUserRole(token).role,
     userId |-> userId, role |-> role, permissionId |-> permissionId,
     targetRole |-> TargetRole(userId), res |-> res, users |-> {}]

(* GET /api/admin/users *)

GetResponse(currentUser) ==
    IF currentUser = NullUser THEN Response(401, "Unauthorized")
    ELSE IF ~hasPermission(currentUser.role, "view_users")
         THEN Response(403, "Forbidden")
    ELSE IF currentUser.role \in {"super_admin", "admin", "moderator", "user"}
         THEN Ok
    ELSE Response(403, "Forbidden")

\* The ids of the rows the listing returns: all rows for super_admin, admin
\* and moderator, the staff rows for a user.
ListedUsers(role) ==
    IF role \in {"super_admin", "admin", "moderator"}
    THEN {u \in DOMAIN rbac_users : rbac_users[u] # "none"}
    ELSE {u \in DOMAIN rbac_users :
             rbac_users[u] \in {"super_admin", "admin", "moderator"}}

UsersGET(token) ==
    LET currentUser == getCurrentUserRole(token)
        res == GetResponse(currentUser)
    IN  /\ lastReq' = [Request("GET", token, 0, "", 0, res) EXCEPT
                          !.users = IF res.status = 200
                                    THEN ListedUsers(currentUser.role)
                                    ELSE {}]
        /\ UNCHANGED <<rbac_users, authUsers, user_permissions, now>>

(* PUT /api/admin/users *)

PutResponseNoSelfGuard(currentUser, userId, role) ==
    IF currentUser = NullUser THEN Response(401, "Unauthorized")
    ELSE IF userId = 0 \/ role = "" THEN Response(400, "Missing userId or role")
    ELSE IF role \notin {"super_admin", "admin", "moderator", "user"}
         THEN Response(400, "Invalid role")
    ELSE IF ~canManageRole(currentUser.role, role)
         THEN Response(403, "You don't have permission to assign " \o role \o " role")
    ELSE IF TargetRole(userId) = "none"
         THEN Response(404, "User not found or update failed")
    ELSE Ok

PutResponseNoHierarchy(currentUser, userId, role) ==
    IF currentUser = NullUser THEN Response(401, "Unauthorized")
    ELSE IF userId = 0 \/ role = "" THEN Response(400, "Missing userId or role")
    ELSE IF role \notin {"super_admin", "admin", "moderator", "user"}
         THEN Response(400, "Invalid role")
    ELSE IF TargetRole(userId) = "admin" /\ currentUser.role = "admin"
            /\ currentUser.userId = userId
         THEN Response(403, "Admins cannot change their own role")
    ELSE IF TargetRole(userId) = "none"
         THEN Response(404, "User not found or update failed")
    ELSE Ok

PutResponseNoValidation(currentUser, userId, role) ==
    IF currentUser = NullUser THEN Response(401, "Unauthorized")
    ELSE IF userId = 0 \/ role = "" THEN Response(400, "Missing userId or role")
    ELSE IF ~canManageRole(currentUser.role, role)
         THEN Response(403, "You don't have permission to assign " \o role \o " role")
    ELSE IF TargetRole(userId) = "admin" /\ currentUser.role = "admin"
            /\ currentUser.userId = userId
         THEN Response(403, "Admins cannot change their own role")
    ELSE IF TargetRole(userId) = "none"
         THEN Response(404, "User not found or update failed")
    ELSE Ok

PutResponse(currentUser, userId, role) ==
    IF currentUser = NullUser THEN Response(401, "Unauthorized")
    ELSE IF userId = 0 \/ role = "" THEN Response(400, "Missing userId or role")
    ELSE IF role \notin {"super_admin", "admin", "moderator", "user"}
         THEN Response(400, "Invalid role")
    ELSE IF ~canManageRole(currentUser.role, role)
         THEN Response(403, "You don't have permission to assign " \o role \o " role")
    ELSE IF TargetRole(userId) = "admin" /\ currentUser.role = "admin"
            /\ currentUser.userId = userId
         THEN Response(403, "Admins cannot change their own role")
    ELSE IF TargetRole(userId) = "none"
         THEN Response(404, "User not found or update failed")
    ELSE Ok

UpdateRoleUpsert(userId, role) ==
    [rbac_users EXCEPT ![userId] = role]

\* update({role}).eq('id', userId): the rows that match, none when the id
\* has no row
UpdateRole(userId, role) ==
    IF TargetRole(userId) # "none"
    THEN [rbac_users EXCEPT ![userId] = role]
    ELSE rbac_users

\* The update statement runs once the checks have passed; the 404 is decided
\* from the rows it returns.
UsersPUT(token, userId, role) ==
    LET currentUser == getCurrentUserRole(token)
        res == PutResponse(currentUser, userId, role)
    IN  /\ lastReq' = Request("PUT", token, userId, role, 0, res)
        /\ rbac_users' = IF res.status \in {200, 404}
                         THEN UpdateRole(userId, role)
                         ELSE rbac_users
        /\ UNCHANGED <<authUsers, user_permissions, now>>

(* DELETE /api/admin/users *)

DeleteResponseNoSelfCheck(currentUser, userId) ==
    IF currentUser = NullUser THEN Response(401, "Unauthorized")
    ELSE IF ~hasPermission(currentUser.role, "delete_users")
         THEN Response(403, "You don't have permission to delete users")
    ELSE IF userId = 0 THEN Response(400, "Missing userId")
    ELSE IF TargetRole(userId) # "none"
            /\ ~canManageRole(currentUser.role, TargetRole(userId))
         THEN Response(403, "You don't have permission to delete "
                            \o TargetRole(userId) \o "s")
    ELSE Ok

DeleteResponseNoHierarchy(currentUser, userId) ==
    IF currentUser = NullUser THEN Response(401, "Unauthorized")
    ELSE IF ~hasPermission(currentUser.role, "delete_users")
         THEN Response(403, "You don't have permission to delete users")
    ELSE IF userId = 0 THEN Response(400, "Missing userId")
    ELSE IF userId = currentUser.userId
         THEN Response(400, "Cannot delete your own account")
    ELSE Ok

DeleteResponseSelfForbidden(currentUser, userId) ==
    IF currentUser = NullUser THEN Response(401, "Unauthorized")
    ELSE IF ~hasPermission(currentUser.role, "delete_users")
         THEN Response(403, "You don't have permission to delete users")
    ELSE IF userId = 0 THEN Response(400, "Missing userId")
    ELSE IF userId = currentUser.userId
         THEN Response(403, "You don't have permission to delete users")
    ELSE IF TargetRole(userId) # "none"
            /\ ~canManageRole(currentUser.role, TargetRole(userId))
         THEN Response(403, "You don't have permission to delete "
                            \o TargetRole(userId) \o "s")
    ELSE Ok

DeleteResponse(currentUser, userId) ==
    IF currentUser = NullUser THEN Response(401, "Unauthorized")
    ELSE IF ~hasPermission(currentUser.role, "delete_users")
         THEN Response(403, "You don't have permission to delete users")
    ELSE IF userId = 0 THEN Response(400, "Missing userId")
    ELSE IF userId = currentUser.userId
         THEN Response(400, "Cannot delete your own account")
    ELSE IF TargetRole(userId) # "none"
            /\ ~canManageRole(currentUser.role, TargetRole(userId))
         THEN Response(403, "You don't have permission to delete "
                            \o TargetRole(userId) \o "s")
    ELSE Ok

\* auth.admin.deleteUser(userId) can succeed only for an existing account
\* that no other user's grant row names as granted_by (that foreign key has
\* no ON DELETE action); rows whose user_id is the account are cascaded.
AuthDeletable(userId) ==
    /\ userId \in authUsers
    /\ \A g \in user_permissions : g.granted_by = userId => g.user_id = userId

UsersDELETE(token, userId, authError) ==
    LET currentUser == getCurrentUserRole(token)
        res == DeleteResponse(currentUser, userId)
        authDeleted == res.status = 200 /\ ~authError /\ AuthDeletable(userId)
    IN  /\ (~authError) \/ res.status = 200
        /\ lastReq' = Request("DELETE", token, userId, "", 0, res)
        /\ rbac_users' = IF res.status = 200 /\ userId \in DOMAIN rbac_users
                         THEN [rbac_users EXCEPT ![userId] = "none"]
                         ELSE rbac_users
        /\ authUsers' = IF authDeleted THEN authUsers \ {userId} ELSE authUsers
        /\ user_permissions' =
              IF authDeleted
              THEN {g \in user_permissions : g.user_id # userId}
              ELSE user_permissions
        /\ UNCHANGED now

(* SignupPage.onSubmit *)

\* auth.signUp creates the account of a new id (for a registered one it
\* answers with an error and nothing is written); the profile row is then
\* inserted with role 'user', by the page or by the on_auth_user_created
\* trigger, unless that insert fails (dbError), which only shows a toast.
Signup(userId, dbError) ==
    /\ userId \notin authUsers
    /\ lastReq' = Request("SIGNUP", 0, userId, "user", 0,
                          IF dbError
                          THEN Response(500, "Failed to create user profile")
                          ELSE Ok)
    /\ authUsers' = authUsers \cup {userId}
    /\ rbac_users' = IF dbError THEN rbac_users
                     ELSE [rbac_users EXCEPT ![userId] = "user"]
    /\ UNCHANGED <<user_permissions, now>>

(* POST /api/admin/permissions: grant.  A run makes at most MaxGrants     *)
(* grants; the clock advances with each insert, so that rows inserted by  *)
(* different requests carry different granted_at.                         *)

GrantRow(userId, permissionId, grantedBy, grantedAt) ==
    [user_id |-> userId, permission_id |-> permissionId,
     granted_by |-> grantedBy, granted_at |-> grantedAt]

HasGrantRow(userId, permissionId) ==
    \E g \in user_permissions :
        g.user_id = userId /\ g.permission_id = permissionId

PostResponseNoConflict(currentUser, userId, permissionId) ==
    IF currentUser = NullUser THEN Response(401, "Unauthorized")
    ELSE IF currentUser.role # "super_admin"
         THEN Response(403, "Only super admin can grant permissions")
    ELSE IF userId = 0 \/ permissionId = 0
         THEN Response(400, "Missing userId or permissionId")
    ELSE IF userId \notin authUsers \/ permissionId \notin PermissionIds
         THEN Response(500, "violates foreign key constraint")
    ELSE Ok

PostResponse(currentUser, userId, permissionId) ==
    IF currentUser = NullUser THEN Response(401, "Unauthorized")
    ELSE IF currentUser.role # "super_admin"
         THEN Response(403, "Only super admin can grant permissions")
    ELSE IF userId = 0 \/ permissionId = 0
         THEN Response(400, "Missing userId or permissionId")
    ELSE IF HasGrantRow(userId, permissionId)
         THEN Response(409, "Permission already granted")
    ELSE IF userId \notin authUsers \/ permissionId \notin PermissionIds
         THEN Response(500, "violates foreign key constraint")
    ELSE Ok

PermissionsPOST(token, userId, permissionId) ==
    LET currentUser == getCurrentUserRole(token)
        res == PostResponse(currentUser, userId, permissionId)
    IN  /\ (res.status = 200 /\ ~HasGrantRow(userId, permissionId)) =>
              now < MaxGrants
        /\ lastReq' = Request("POST", token, userId, "", permissionId, res)
        /\ user_permissions' =
              IF res.status = 200
              THEN user_permissions
                   \cup {GrantRow(userId, permissionId, currentUser.userId, now)}
              ELSE user_permissions
        /\ now' = IF res.status = 200 THEN now + 1 ELSE now
        /\ UNCHANGED <<rbac_users, authUsers>>

(* DELETE /api/admin/permissions: revoke *)

RevokeResponseNotFound(currentUser, userId, permissionId) ==
    IF currentUser = NullUser THEN Response(401, "Unauthorized")
    ELSE IF currentUser.role # "super_admin"
         THEN Response(403, "Only super admin can revoke permissions")
    ELSE IF userId = 0 \/ permissionId = 0
         THEN Response(400, "Missing userId or permissionId")
    ELSE IF ~HasGrantRow(userId, permissionId)
         THEN Response(404, "Permission not granted")
    ELSE Ok

RevokeResponse(currentUser, userId, permissionId) ==
    IF currentUser = NullUser THEN Response(401, "Unauthorized")
    ELSE IF currentUser.role # "super_admin"
         THEN Response(403, "Only super admin can revoke permissions")
    ELSE IF userId = 0 \/ permissionId = 0
         THEN Response(400, "Missing userId or permissionId")
    ELSE Ok

PermissionsDELETE(token, userId, permissionId) ==
    LET currentUser == getCurrentUserRole(token)
        res == RevokeResponse(currentUser, userId, permissionId)
    IN  /\ lastReq' = Request("REVOKE", token, userId, "", permissionId, res)
        /\ user_permissions' =
              IF res.status = 200
              THEN {g \in user_permissions :
                        ~(g.user_id = userId /\ g.permission_id = permissionId)}
              ELSE user_permissions
        /\ UNCHANGED <<rbac_users, authUsers, now>>

----------------------------------------------------------------------------
(* Server, concurrent: PUT and DELETE /api/admin/users with every store    *)
(* access (an await on supabaseAdmin or on getUser) a step of its own.     *)
(* A handler keeps what it read in its request record; the other request   *)
(* may write between two of its steps.                                     *)

\* The two requests that run concurrently
Clients == {"a", "b"}

\* Not an answer: the handler goes on to its next store access.
Continue == Response(100, "")

RequestIdle ==
    [op |-> "none", token |-> 0, userId |-> 0, role |-> "", pc |-> "idle",
     actorRole |-> "none", targetRole |-> "none", res |-> Ok, wrote |-> 0]

\* The position of a write among the writes to rbac_users so far
NextWrite == 1 + Cardinality({c \in Clients : inflight[c].wrote # 0})

\* PUT up to its hierarchy check: getCurrentUserRole, then the body
PutAuthorize(currentUser, userId, role) ==
    IF currentUser = NullUser THEN Response(401, "Unauthorized")
    ELSE IF userId = 0 \/ role = "" THEN Response(400, "Missing userId or role")
    ELSE IF role \notin {"super_admin", "admin", "moderator", "user"}
         THEN Response(400, "Invalid role")
    ELSE IF ~canManageRole(currentUser.role, role)
         THEN Response(403, "You don't have permission to assign " \o role \o " role")
    ELSE Continue

PutArrive(c, token, userId, role) ==
    LET currentUser == getCurrentUserRole(token)
        res == PutAuthorize(currentUser, userId, role)
    IN  /\ inflight[c].pc = "idle"
        /\ inflight' = [inflight EXCEPT ![c] =
              [RequestIdle EXCEPT !.op = "PUT", !.token = token,
                                  !.userId = userId, !.role = role,
                                  !.actorRole = currentUser.role, !.res = res,
                                  !.pc = IF res = Continue THEN "read"
                                         ELSE "done"]]
        /\ UNCHANGED <<rbac_users, authUsers, user_permissions, now, lastReq>>

\* PUT: select('role').eq('id', userId).single() and the admin self guard
PutReadTarget(c) ==
    LET req == inflight[c]
        targetRole == TargetRole(req.userId)
        denied == /\ targetRole = "admin"
                  /\ req.actorRole = "admin"
                  /\ req.token = req.userId
    IN  /\ req.op = "PUT"
        /\ req.pc = "read"
        /\ inflight' = [inflight EXCEPT ![c] =
              [req EXCEPT !.targetRole = targetRole,
                          !.res = IF denied
                                  THEN Response(403,
                                          "Admins cannot change their own role")
                                  ELSE Continue,
                          !.pc = IF denied THEN "done" ELSE "write"]]
        /\ UNCHANGED <<rbac_users, authUsers, user_permissions, now, lastReq>>

PutUpdateResponseIfUnchanged(req) ==
    IF TargetRole(req.userId) = "none"
    THEN Response(404, "User not found or update failed")
    ELSE IF TargetRole(req.userId) # req.targetRole
    THEN Response(409, "Role changed by another request")
    ELSE Ok

\* PUT: update({role}).eq('id', userId).select('*'), 404 when no row came back
PutUpdateResponse(req) ==
    IF TargetRole(req.userId) = "none"
    THEN Response(404, "User not found or update failed")
    ELSE Ok

PutUpdate(c) ==
    LET req == inflight[c]
        res == PutUpdateResponse(req)
    IN  /\ req.op = "PUT"
        /\ req.pc = "write"
        /\ rbac_users' = IF res = Ok
                         THEN [rbac_users EXCEPT ![req.userId] = req.role]
                         ELSE rbac_users
        /\ inflight' = [inflight EXCEPT ![c] =
              [req EXCEPT !.res = res, !.pc = "done",
                          !.wrote = IF res = Ok THEN NextWrite ELSE 0]]
        /\ UNCHANGED <<authUsers, user_permissions, now, lastReq>>

\* DELETE up to its self check: getCurrentUserRole, then the body
DeleteAuthorize(currentUser, userId) ==
    IF currentUser = NullUser THEN Response(401, "Unauthorized")
    ELSE IF ~hasPermission(currentUser.role, "delete_users")
         THEN Response(403, "You don't have permission to delete users")
    ELSE IF userId = 0 THEN Response(400, "Missing userId")
    ELSE IF userId = currentUser.userId
         THEN Response(400, "Cannot delete your own account")
    ELSE Continue

DeleteArrive(c, token, userId) ==
    LET currentUser == getCurrentUserRole(token)
        res == DeleteAuthorize(currentUser, userId)
    IN  /\ inflight[c].pc = "idle"
        /\ inflight' = [inflight EXCEPT ![c] =
              [RequestIdle EXCEPT !.op = "DELETE", !.token = token,
                                  !.userId = userId,
                                  !.actorRole = currentUser.role, !.res = res,
                                  !.pc = IF res = Continue THEN "read"
                                         ELSE "done"]]
        /\ UNCHANGED <<rbac_users, authUsers, user_permissions, now, lastReq>>

\* DELETE: select('role').eq('id', userId).single() and the hierarchy check
DeleteReadTarget(c) ==
    LET req == inflight[c]
        targetRole == TargetRole(req.userId)
        denied == /\ targetRole # "none"
                  /\ ~canManageRole(req.actorRole, targetRole)
    IN  /\ req.op = "DELETE"
        /\ req.pc = "read"
        /\ inflight' = [inflight EXCEPT ![c] =
              [req EXCEPT !.targetRole = targetRole,
                          !.res = IF denied
                                  THEN Response(403,
                                          "You don't have permission to delete "
                                          \o targetRole \o "s")
                                  ELSE Continue,
                          !.pc = IF denied THEN "done" ELSE "write"]]
        /\ UNCHANGED <<rbac_users, authUsers, user_permissions, now, lastReq>>

\* DELETE: from('rbac_users').delete().eq('id', userId)
DeleteRow(c) ==
    LET req == inflight[c]
    IN  /\ req.op = "DELETE"
        /\ req.pc = "write"
        /\ rbac_users' = [rbac_users EXCEPT ![req.userId] = "none"]
        /\ inflight' = [inflight EXCEPT ![c] =
              [req EXCEPT !.pc = "authdel",
                          !.wrote = IF rbac_users[req.userId] # "none"
                                    THEN NextWrite ELSE 0]]
        /\ UNCHANGED <<authUsers, user_permissions, now, lastReq>>

\* DELETE: auth.admin.deleteUser(userId), whose error is only logged
DeleteAuthUser(c, authError) ==
    LET req == inflight[c]
        authDeleted == ~authError /\ AuthDeletable(req.userId)
    IN  /\ req.op = "DELETE"
        /\ req.pc = "authdel"
        /\ authUsers' = IF authDeleted THEN authUsers \ {req.userId}
                        ELSE authUsers
        /\ user_permissions' =
              IF authDeleted
              THEN {g \in user_permissions : g.user_id # req.userId}
              ELSE user_permissions
        /\ inflight' = [inflight EXCEPT ![c] =
              [req EXCEPT !.res = Ok, !.pc = "done"]]
        /\ UNCHANGED <<rbac_users, now, lastReq>>

----------------------------------------------------------------------------
(* Inputs the requests are drawn from *)

Tokens == UserIds \cup {0}

UserIdInputs == UserIds \cup {0}

RoleInputs == Role \cup {"", "guest"}

\* delete_users, assign_moderator_role, assign_admin_role, a missing id and
\* an id outside the catalog
PermissionIdInputs == {0, 4, 7, 8, Len(permissions) + 1}

ActionNames == PermissionNames \cup {"*", "unknown_action"}

----------------------------------------------------------------------------
(* Dashboard (client) *)

PermissionName(permissionId) == permissions[permissionId]

HasUserPermissionAny(permissionName) ==
    IF currentUserRole = "super_admin" THEN TRUE
    ELSE currentUserPermissions # {}

hasUserPermission(permissionName) ==
    IF currentUserRole = "super_admin" THEN TRUE
    ELSE \E up \in currentUserPermissions : PermissionName(up) = permissionName

CanPerformActionRoleOnly(action) ==
    hasPermission(currentUserRole, action)

CanPerformActionListOnly(action) ==
    \/ \E up \in currentUserPermissions : PermissionName(up) = action
    \/ action \in rolePermissions[currentUserRole]

CanPerformActionGrantsFirst(action) ==
    IF currentUserRole = "super_admin" THEN TRUE
    ELSE IF currentUserPermissions # {} THEN hasUserPermission(action)
    ELSE hasPermission(currentUserRole, action)

canPerformAction(action) ==
    IF currentUserRole = "super_admin" THEN TRUE
    ELSE IF hasUserPermission(action) THEN TRUE
    ELSE hasPermission(currentUserRole, action)

\* canAssignRole, the closure inside handleRoleChange
canAssignRole(newRole) ==
    CASE newRole = "super_admin" -> canPerformAction("assign_super_admin_role")
      [] newRole = "admin" -> canPerformAction("assign_admin_role")
      [] newRole = "moderator" -> canPerformAction("assign_moderator_role")
      [] newRole = "user" -> canPerformAction("assign_user_role")
      [] OTHER -> FALSE

\* The three early returns of handleRoleChange, by the toast each shows;
\* "sent" when the request goes on to PUT /api/admin/users.
handleRoleChangeGate(userId, newRole) ==
    IF ~canAssignRole(newRole)
    THEN "You don't have permission to assign " \o newRole \o " role"
    ELSE IF ~canManageRole(currentUserRole, newRole)
    THEN "You don't have permission to assign " \o newRole \o " role to this user"
    ELSE IF userId = authUserId /\ currentUserRole = "admin" /\ newRole # "admin"
    THEN "Admins cannot change their own role"
    ELSE "sent"

DashInit ==
    [fn |-> "none", action |-> "", role |-> "", userId |-> 0,
     result |-> FALSE, gate |-> "", before |-> {}, loading |-> FALSE]

EvalCanPerformAction(action) ==
    /\ dashReq' = [fn |-> "canPerformAction", action |-> action, role |-> "",
                   userId |-> 0, result |-> canPerformAction(action), gate |-> "",
                   before |-> {}, loading |-> FALSE]
    /\ UNCHANGED <<authUserId, currentUserRole, currentUserPermissions>>

EvalCanManageRole(targetRole) ==
    /\ dashReq' = [fn |-> "canManageRole", action |-> "", role |-> targetRole,
                   userId |-> 0,
                   result |-> canManageRole(currentUserRole, targetRole),
                   gate |-> "", before |-> {}, loading |-> FALSE]
    /\ UNCHANGED <<authUserId, currentUserRole, currentUserPermissions>>

EvalHandleRoleChange(userId, newRole) ==
    /\ dashReq' = [fn |-> "handleRoleChange", action |-> "", role |-> newRole,
                   userId |-> userId,
                   result |-> handleRoleChangeGate(userId, newRole) = "sent",
                   gate |-> handleRoleChangeGate(userId, newRole),
                   before |-> {}, loading |-> FALSE]
    /\ UNCHANGED <<authUserId, currentUserRole, currentUserPermissions>>

\* fetchCurrentUserPermissions: the cache takes the rows the server answers
\* for the session's user, here an input; dashReq.before keeps the cache the
\* answer replaces.
fetchCurrentUserPermissions(userPermissions) ==
    /\ authUserId # 0
    /\ currentUserPermissions' = userPermissions
    /\ dashReq' = [DashInit EXCEPT !.fn = "fetchCurrentUserPermissions",
                                   !.before = currentUserPermissions]
    /\ UNCHANGED <<authUserId, currentUserRole>>

\* Protected: what the component returns for the auth context it is given,
\* user being NullUser for a visitor that is not logged in.
ProtectedRender(loading, user, role) ==
    IF loading THEN "Loading..."
    ELSE IF user # NullUser THEN "children"
    ELSE "null"

\* Protected: the router.push of its effect, "" when it pushes nothing
ProtectedEffect(loading, user, role) ==
    IF loading THEN ""
    ELSE IF user = NullUser THEN "/login"
    ELSE IF role # "" /\ user.role # role THEN "/dashboard"
    ELSE ""

\* One render of <Protected role={role}> and the effect that follows it
EvalProtected(loading, loggedIn, role) ==
    LET user == IF loggedIn
                THEN [userId |-> authUserId, role |-> currentUserRole]
                ELSE NullUser
    IN  /\ dashReq' = [fn |-> "Protected",
                       action |-> ProtectedRender(loading, user, role),
                       role |-> role, userId |-> user.userId,
                       result |-> ProtectedRender(loading, user, role) = "children",
                       gate |-> ProtectedEffect(loading, user, role),
                       before |-> {}, loading |-> loading]
        /\ UNCHANGED <<authUserId, currentUserRole, currentUserPermissions>>

----------------------------------------------------------------------------
(* Dashboard, the user list *)

\* users before the first fetchUsers: no row shown
NoUsers == [u \in UserIds |-> "none"]

\* No handleRoleChange call is waiting for its response.  While a call is
\* in flight the record keeps its previousUsers and previousRole, and also
\* the list and the role the realtime events received since would have
\* produced from them (expected, expectedRole).
NoCall ==
    [active |-> FALSE, userId |-> 0, newRole |-> "",
     previousUsers |-> NoUsers, previousRole |-> "",
     expected |-> NoUsers, expectedRole |-> ""]

\* The three setUsers updaters of the realtime subscription
ApplyUpdate(list, userId, role) ==
    IF list[userId] # "none" THEN [list EXCEPT ![userId] = role] ELSE list

ApplyDelete(list, userId) == [list EXCEPT ![userId] = "none"]

ApplyInsert(list, userId, role) == [list EXCEPT ![userId] = role]

\* userPermissions of GET /api/admin/permissions/user?userId=
UserPermissionRows(userId) ==
    {g.permission_id : g \in {h \in user_permissions : h.user_id = userId}}

\* What the expected list and role become when an event arrives
Received(list, role) ==
    IF pending.active
    THEN [pending EXCEPT !.expected = list, !.expectedRole = role]
    ELSE pending

\* handleRoleChange up to its fetch: the early returns, then the optimistic
\* update.  It can be called for any row shown, the caller's own included.
handleRoleChange(userId, newRole) ==
    LET gate == handleRoleChangeGate(userId, newRole)
    IN  /\ ~pending.active
        /\ users[userId] # "none"
        /\ dashReq' = [DashInit EXCEPT !.fn = "handleRoleChange",
                                       !.result = (gate = "sent")]
        /\ IF gate = "sent"
           THEN /\ pending' = [active |-> TRUE, userId |-> userId,
                               newRole |-> newRole,
                               previousUsers |-> users,
                               previousRole |-> currentUserRole,
                               expected |-> users,
                               expectedRole |-> currentUserRole]
                /\ users' = ApplyUpdate(users, userId, newRole)
                /\ currentUserRole' = IF authUserId = userId THEN newRole
                                      ELSE currentUserRole
           ELSE UNCHANGED <<pending, users, currentUserRole>>
        /\ UNCHANGED <<authUserId, currentUserPermissions>>
        /\ UNCHANGED <<serverVars, inflight>>

\* handleRoleChange, the request throws before it reaches the server: the
\* catch block restores previousUsers and previousRole.
RoleChangeThrows ==
    /\ pending.active
    /\ users' = pending.previousUsers
    /\ currentUserRole' = pending.previousRole
    /\ pending' = NoCall
    /\ dashReq' = [DashInit EXCEPT !.fn = "handleRoleChange",
                                   !.gate = "An unexpected error occurred"]
    /\ UNCHANGED <<authUserId, currentUserPermissions>>
    /\ UNCHANGED <<serverVars, inflight>>

\* handleRoleChange, the server answers: PUT /api/admin/users is handled; a
\* non-OK answer restores previousUsers and previousRole, an OK answer
\* keeps the list, on which the UPDATE event of the change is then applied.
RoleChangeResponse ==
    LET res == PutResponse(getCurrentUserRole(authUserId),
                           pending.userId, pending.newRole)
    IN  /\ pending.active
        /\ rbac_users' = IF res.status \in {200, 404}
                         THEN UpdateRole(pending.userId, pending.newRole)
                         ELSE rbac_users
        /\ IF res.status # 200
           THEN /\ users' = pending.previousUsers
                /\ currentUserRole' = pending.previousRole
           ELSE /\ users' = ApplyUpdate(users, pending.userId, pending.newRole)
                /\ currentUserRole' = IF authUserId = pending.userId
                                      THEN pending.newRole ELSE currentUserRole
        /\ pending' = NoCall
        /\ dashReq' = [DashInit EXCEPT !.fn = "handleRoleChange",
                                       !.result = (res.status = 200),
                                       !.gate = IF res.status = 200
                                                THEN "User role updated successfully"
                                                ELSE "Failed to update user role"]
        /\ UNCHANGED <<authUserId, currentUserPermissions, inflight>>
        /\ UNCHANGED <<authUsers, user_permissions, now, lastReq>>

\* Another session's role change is accepted and its UPDATE event arrives.
RealtimeUpdate(token, userId, role) ==
    /\ PutResponse(getCurrentUserRole(token), userId, role) = Ok
    /\ rbac_users' = UpdateRole(userId, role)
    /\ users' = ApplyUpdate(users, userId, role)
    /\ currentUserRole' = IF authUserId = userId THEN role
                          ELSE currentUserRole
    /\ currentUserPermissions' =
          IF authUserId = userId THEN UserPermissionRows(authUserId)
          ELSE currentUserPermissions
    /\ pending' = Received(ApplyUpdate(pending.expected, userId, role),
                           IF authUserId = userId THEN role
                           ELSE pending.expectedRole)
    /\ dashReq' = [DashInit EXCEPT !.fn = "realtime", !.action = "UPDATE"]
    /\ UNCHANGED <<authUserId, inflight>>
    /\ UNCHANGED <<authUsers, user_permissions, now, lastReq>>

\* Another session's deletion removes a row and its DELETE event arrives.
RealtimeDelete(token, userId, authError) ==
    LET authDeleted == ~authError /\ AuthDeletable(userId)
    IN  /\ TargetRole(userId) # "none"
        /\ DeleteResponse(getCurrentUserRole(token), userId) = Ok
        /\ rbac_users' = [rbac_users EXCEPT ![userId] = "none"]
        /\ authUsers' = IF authDeleted THEN authUsers \ {userId}
                        ELSE authUsers
        /\ user_permissions' =
              IF authDeleted
              THEN {g \in user_permissions : g.user_id # userId}
              ELSE user_permissions
        /\ users' = ApplyDelete(users, userId)
        /\ pending' = Received(ApplyDelete(pending.expected, userId),
                               pending.expectedRole)
        /\ dashReq' = [DashInit EXCEPT !.fn = "realtime", !.action = "DELETE"]
        /\ UNCHANGED <<authUserId, currentUserRole, currentUserPermissions,
                       inflight, now, lastReq>>

\* A sign-up inserts a row and its INSERT event arrives.
RealtimeInsert(userId) ==
    /\ userId \notin authUsers
    /\ authUsers' = authUsers \cup {userId}
    /\ rbac_users' = [rbac_users EXCEPT ![userId] = "user"]
    /\ users' = ApplyInsert(users, userId, "user")
    /\ pending' = Received(ApplyInsert(pending.expected, userId, "user"),
                           pending.expectedRole)
    /\ dashReq' = [DashInit EXCEPT !.fn = "realtime", !.action = "INSERT"]
    /\ UNCHANGED <<authUserId, currentUserRole, currentUserPermissions,
                   inflight, user_permissions, now, lastReq>>

\* The list GET /api/admin/users answers, as the dashboard keeps it
Listing(role) ==
    [u \in UserIds |-> IF u \in ListedUsers(role) THEN rbac_users[u]
                       ELSE "none"]

\* fetchUsers, no role change in flight: on an OK answer the list and the
\* role are replaced by the server's.
fetchUsers ==
    LET currentUser == getCurrentUserRole(authUserId)
    IN  /\ ~pending.active
        /\ IF GetResponse(currentUser) = Ok
           THEN /\ users' = Listing(currentUser.role)
                /\ currentUserRole' = currentUser.role
           ELSE UNCHANGED <<users, currentUserRole>>
        /\ dashReq' = [DashInit EXCEPT !.fn = "fetchUsers"]
        /\ UNCHANGED <<authUserId, currentUserPermissions, pending, inflight>>
        /\ UNCHANGED serverVars

\* The Delete button of a row: whether the dashboard renders it
DeleteOffered(userId) ==
    /\ canPerformAction("delete_users")
    /\ canManageRole(currentUserRole, users[userId])
    /\ userId # authUserId

EvalDeleteOffered(userId) ==
    /\ users[userId] # "none"
    /\ dashReq' = [DashInit EXCEPT !.fn = "DeleteOffered",
                                   !.userId = userId,
                                   !.result = DeleteOffered(userId)]
    /\ UNCHANGED <<authUserId, currentUserRole, currentUserPermissions>>
    /\ UNCHANGED <<serverVars, inflight, users, pending>>

----------------------------------------------------------------------------
(* Specifications *)

\* No concurrent request on the server, no list on the dashboard
Idle ==
    /\ inflight = [c \in Clients |-> RequestIdle]
    /\ users = NoUsers
    /\ pending = NoCall

\* Grant tables a super_admin (user 1) has filled before the run starts.
InitialGrants ==
    {{}} \cup {{GrantRow(u, p, 1, 0)} :
                  u \in UserIds, p \in PermissionIdInputs \cap PermissionIds}

ServerInit ==
    /\ rbac_users = [u \in UserIds |-> IF u = 1 THEN "super_admin" ELSE "user"]
    /\ authUsers = UserIds
    /\ lastReq = RequestInit

DashboardIdle ==
    /\ authUserId = 1
    /\ currentUserRole = "user"
    /\ currentUserPermissions = {}
    /\ dashReq = DashInit

Init ==
    /\ ServerInit
    /\ user_permissions \in InitialGrants
    /\ now = Cardinality(user_permissions)
    /\ DashboardIdle
    /\ Idle

Next ==
    \/ \E t \in Tokens : UsersGET(t) /\ UNCHANGED <<dashVars, idleVars>>
    \/ \E t \in Tokens, u \in UserIdInputs, r \in RoleInputs :
          UsersPUT(t, u, r) /\ UNCHANGED <<dashVars, idleVars>>
    \/ \E t \in Tokens, u \in UserIdInputs, e \in BOOLEAN :
          UsersDELETE(t, u, e) /\ UNCHANGED <<dashVars, idleVars>>
    \/ \E u \in UserIds, e \in BOOLEAN :
          Signup(u, e) /\ UNCHANGED <<dashVars, idleVars>>

Spec == Init /\ [][Next]_vars

\* The permission routes, for each role the second user may hold.
InitPerm ==
    /\ rbac_users \in {[u \in UserIds |-> IF u = 1 THEN "super_admin" ELSE r] :
                          r \in Role}
    /\ authUsers = UserIds
    /\ user_permissions = {}
    /\ now = 0
    /\ lastReq = RequestInit
    /\ DashboardIdle
    /\ Idle

NextPerm ==
    \/ \E t \in Tokens, u \in UserIdInputs, p \in PermissionIdInputs :
          PermissionsPOST(t, u, p) /\ UNCHANGED <<dashVars, idleVars>>
    \/ \E t \in Tokens, u \in UserIdInputs, p \in PermissionIdInputs :
          PermissionsDELETE(t, u, p) /\ UNCHANGED <<dashVars, idleVars>>

SpecPerm == InitPerm /\ [][NextPerm]_vars

\* One request, to any of the five handlers, against any store state the
\* schema admits: a row in rbac_users needs an account (rbac_users.id
\* REFERENCES auth.users), a grant row an account for user_id and granted_by.
InitReq ==
    /\ rbac_users \in [UserIds -> Role \cup {"none"}]
    /\ authUsers \in SUBSET UserIds
    /\ \A u \in UserIds : rbac_users[u] # "none" => u \in authUsers
    /\ user_permissions \in InitialGrants
    /\ \A g \in user_permissions :
          g.user_id \in authUsers /\ g.granted_by \in authUsers
    /\ now = Cardinality(user_permissions)
    /\ lastReq = RequestInit
    /\ DashboardIdle
    /\ Idle

\* No request has been handled yet.
Fresh == lastReq.op = "none"

NextReq ==
    \/ \E t \in Tokens :
          Fresh /\ UsersGET(t) /\ UNCHANGED <<dashVars, idleVars>>
    \/ \E t \in Tokens, u \in UserIdInputs, r \in RoleInputs :
          Fresh /\ UsersPUT(t, u, r) /\ UNCHANGED <<dashVars, idleVars>>
    \/ \E t \in Tokens, u \in UserIdInputs, e \in BOOLEAN :
          Fresh /\ UsersDELETE(t, u, e) /\ UNCHANGED <<dashVars, idleVars>>
    \/ \E t \in Tokens, u \in UserIdInputs, p \in PermissionIdInputs :
          Fresh /\ PermissionsPOST(t, u, p) /\ UNCHANGED <<dashVars, idleVars>>
    \/ \E t \in Tokens, u \in UserIdInputs, p \in PermissionIdInputs :
          /\ Fresh
          /\ PermissionsDELETE(t, u, p)
          /\ UNCHANGED <<dashVars, idleVars>>

SpecReq == InitReq /\ [][NextReq]_vars

\* The dashboard of a logged-in user, with whatever role and grants the
\* server last reported for it.
UserPermissionsAnswers ==
    {s \in SUBSET (PermissionIdInputs \cap PermissionIds) :
        Cardinality(s) <= MaxGrants}

InitDash ==
    /\ ServerInit
    /\ user_permissions = {}
    /\ now = 0
    /\ authUserId \in UserIds
    /\ currentUserRole \in Role
    /\ currentUserPermissions \in UserPermissionsAnswers
    /\ dashReq = DashInit
    /\ Idle

NextDash ==
    \/ \E a \in ActionNames :
          EvalCanPerformAction(a) /\ UNCHANGED <<serverVars, idleVars>>
    \/ \E r \in Role :
          EvalCanManageRole(r) /\ UNCHANGED <<serverVars, idleVars>>
    \/ \E u \in UserIds, r \in Role :
          EvalHandleRoleChange(u, r) /\ UNCHANGED <<serverVars, idleVars>>
    \/ \E s \in UserPermissionsAnswers :
          fetchCurrentUserPermissions(s) /\ UNCHANGED <<serverVars, idleVars>>
    \/ \E l \in BOOLEAN, i \in BOOLEAN, r \in Role \cup {""} :
          EvalProtected(l, i, r) /\ UNCHANGED <<serverVars, idleVars>>

SpecDash == InitDash /\ [][NextDash]_vars

\* Two concurrent requests to the users route, from accounts that exist,
\* against every assignment of roles to them.
InitRace ==
    /\ rbac_users \in [UserIds -> Role]
    /\ authUsers = UserIds
    /\ user_permissions = {}
    /\ now = 0
    /\ lastReq = RequestInit
    /\ DashboardIdle
    /\ Idle

NextRace ==
    \/ \E c \in Clients, t \in UserIds, u \in UserIds, r \in Role :
          PutArrive(c, t, u, r) /\ UNCHANGED <<dashVars, users, pending>>
    \/ \E c \in Clients :
          PutReadTarget(c) /\ UNCHANGED <<dashVars, users, pending>>
    \/ \E c \in Clients :
          PutUpdate(c) /\ UNCHANGED <<dashVars, users, pending>>
    \/ \E c \in Clients, t \in UserIds, u \in UserIds :
          DeleteArrive(c, t, u) /\ UNCHANGED <<dashVars, users, pending>>
    \/ \E c \in Clients :
          DeleteReadTarget(c) /\ UNCHANGED <<dashVars, users, pending>>
    \/ \E c \in Clients :
          DeleteRow(c) /\ UNCHANGED <<dashVars, users, pending>>
    \/ \E c \in Clients, e \in BOOLEAN :
          DeleteAuthUser(c, e) /\ UNCHANGED <<dashVars, users, pending>>

SpecRace == InitRace /\ [][NextRace]_vars

\* The dashboard of a logged-in user after its first fetchUsers, for every
\* assignment of roles: the list and the role are the server's.
Fetched ==
    /\ rbac_users \in [UserIds -> Role]
    /\ authUsers = UserIds
    /\ user_permissions = {}
    /\ now = 0
    /\ lastReq = RequestInit
    /\ currentUserRole = rbac_users[authUserId]
    /\ dashReq = DashInit
    /\ inflight = [c \in Clients |-> RequestIdle]
    /\ users = Listing(currentUserRole)
    /\ pending = NoCall

\* The decisions the dashboard takes on a fetched list, for every grant set
\* its cache may hold.
InitGate ==
    /\ authUserId \in UserIds
    /\ currentUserPermissions \in UserPermissionsAnswers
    /\ Fetched

NextGate ==
    \/ \E u \in UserIds, r \in Role :
          EvalHandleRoleChange(u, r) /\ UNCHANGED <<serverVars, idleVars>>
    \/ \E u \in UserIds : EvalDeleteOffered(u)
    \/ \E s \in UserPermissionsAnswers :
          fetchCurrentUserPermissions(s) /\ UNCHANGED <<serverVars, idleVars>>

SpecGate == InitGate /\ [][NextGate]_vars

\* The user list of user 1's dashboard, while other sessions change roles,
\* delete users and sign up.
InitList ==
    /\ authUserId = 1
    /\ currentUserPermissions = {}
    /\ Fetched

NextList ==
    \/ \E u \in UserIds, r \in Role : handleRoleChange(u, r)
    \/ RoleChangeThrows
    \/ RoleChangeResponse
    \/ \E t \in UserIds, u \in UserIds, r \in Role : RealtimeUpdate(t, u, r)
    \/ \E t \in UserIds, u \in UserIds, e \in BOOLEAN : RealtimeDelete(t, u, e)
    \/ \E u \in UserIds : RealtimeInsert(u)
    \/ fetchUsers

SpecList == InitList /\ [][NextList]_vars

----------------------------------------------------------------------------
(* Properties *)

\* The hierarchy as the specification tabulates it: (actor role, target role)
ManageTable ==
    {<<"super_admin", r>> : r \in Role}
    \cup {<<"admin", "user">>, <<"admin", "moderator">>, <<"moderator", "user">>}

\* The capability a role assignment needs, assign_<role>_role
AssignCapability(role) == "assign_" \o role \o "_role"

\* The actor holds a capability: super_admin wildcard, role default, or an
\* explicit grant row naming a permission of that name.
HoldsCapability(userId, role, name) ==
    \/ role = "super_admin"
    \/ role \in Role /\ name \in rolePermissions[role]
    \/ \E g \in user_permissions :
          /\ g.user_id = userId
          /\ g.permission_id \in PermissionIds
          /\ permissions[g.permission_id] = name

GrantedNames == {permissions[i] : i \in currentUserPermissions}

\* C1: canManageRole(actorRole, targetRole) is true exactly for the pairs
\* (super_admin, any), (admin, user), (admin, moderator), (moderator, user),
\* and so false for every pair whose actor role is user.
C1_CanManageRoleTable ==
    dashReq.fn = "canManageRole" =>
        /\ dashReq.result <=> (<<currentUserRole, dashReq.role>> \in ManageTable)
        /\ currentUserRole = "user" => ~dashReq.result

C1_Witness ==
    /\ dashReq.fn = "canManageRole"
    /\ currentUserRole = "admin"
    /\ dashReq.role = "admin"
    /\ ~dashReq.result

\* C2: for an actor that is not super_admin the capability check is true
\* iff the action names a permission of the explicit grant set or belongs to
\* the role's default set; a user without grants has view_users and has
\* not delete_users.
C2_CapabilityIffGrantOrDefault ==
    (dashReq.fn = "canPerformAction" /\ currentUserRole # "super_admin") =>
        /\ dashReq.result <=>
              \/ dashReq.action \in GrantedNames
              \/ dashReq.action \in rolePermissions[currentUserRole]
        /\ (currentUserRole = "user" /\ currentUserPermissions = {}) =>
              /\ dashReq.action = "view_users" => dashReq.result
              /\ dashReq.action = "delete_users" => ~dashReq.result

C2_Witness ==
    /\ dashReq.fn = "canPerformAction"
    /\ currentUserRole = "user"
    /\ currentUserPermissions = {4}
    /\ dashReq.action = "delete_users"
    /\ dashReq.result

\* C3: for a super_admin the capability check is true for every action
\* name, also one outside the catalog, whatever the explicit grant set.
C3_SuperAdminWildcard ==
    (dashReq.fn = "canPerformAction" /\ currentUserRole = "super_admin") =>
        dashReq.result

C3_Witness ==
    /\ dashReq.fn = "canPerformAction"
    /\ currentUserRole = "super_admin"
    /\ currentUserPermissions = {}
    /\ dashReq.action = "unknown_action"
    /\ dashReq.action \notin PermissionNames
    /\ dashReq.result

\* The requests C4 to C8 speak of: an authenticated PUT that names a role of
\* the enumeration and a target.
IsRoleChange ==
    /\ lastReq.op = "PUT"
    /\ lastReq.actorRole # "none"
    /\ lastReq.userId # 0
    /\ lastReq.role \in Role

\* C4: a request to assign role X to an existing principal is accepted iff
\* canManageRole(actor role, X) holds, the actor holds assign_<X>_role (by
\* role default, explicit grant or wildcard) and the admin self-demotion
\* guard does not apply.
C4_AcceptedIffBothGates ==
    (IsRoleChange /\ lastReq.targetRole # "none") =>
        (lastReq.res.status = 200 <=>
            /\ <<lastReq.actorRole, lastReq.role>> \in ManageTable
            /\ HoldsCapability(lastReq.token, lastReq.actorRole,
                               AssignCapability(lastReq.role))
            /\ ~(/\ lastReq.token = lastReq.userId
                 /\ lastReq.actorRole = "admin"
                 /\ lastReq.role # "admin"))

C4_Witness ==
    /\ IsRoleChange
    /\ lastReq.actorRole = "admin"
    /\ GrantRow(lastReq.token, 7, 1, 0) \in user_permissions
    /\ lastReq.role = "moderator"
    /\ lastReq.targetRole = "user"
    /\ lastReq.res = Ok
    /\ rbac_users[lastReq.userId] = "moderator"

\* C5: a role-change request changes the target's role only if
\* canManageRole(actor role, role the target holds at that time) is true.
C5_ChangesOnlyManagedTargets ==
    (IsRoleChange /\ lastReq.res.status = 200
        /\ lastReq.role # lastReq.targetRole) =>
        <<lastReq.actorRole, lastReq.targetRole>> \in ManageTable

\* C6: a principal's role becomes admin or super_admin only by a role-change
\* request of an actor that is super_admin when the request is authorized.
C6_OnlySuperAdminElevates ==
    [][\A u \in UserIds :
          (rbac_users'[u] \in {"admin", "super_admin"}
              /\ rbac_users'[u] # rbac_users[u]) =>
          /\ lastReq'.op = "PUT"
          /\ lastReq'.userId = u
          /\ lastReq'.role = rbac_users'[u]
          /\ lastReq'.actorRole = "super_admin"
          /\ lastReq'.token \in UserIds
          /\ rbac_users[lastReq'.token] = "super_admin"]_vars

C6_Witness ==
    /\ IsRoleChange
    /\ lastReq.actorRole = "super_admin"
    /\ lastReq.token # lastReq.userId
    /\ lastReq.targetRole = "user"
    /\ lastReq.role = "admin"
    /\ lastReq.res = Ok
    /\ rbac_users[lastReq.userId] = "admin"

\* C7: a request to assign a role that canManageRole(actor role, new role)
\* forbids is answered 403 and changes no role, whatever explicit grants the
\* actor holds; so for a moderator assigning admin to a user.
C7_GrantsDoNotOverrideHierarchy ==
    (IsRoleChange /\ <<lastReq.actorRole, lastReq.role>> \notin ManageTable) =>
        /\ lastReq.res.status = 403
        /\ lastReq.res.error = "You don't have permission to assign "
                               \o lastReq.role \o " role"
        /\ TargetRole(lastReq.userId) = lastReq.targetRole

C7_Witness ==
    /\ IsRoleChange
    /\ lastReq.actorRole = "moderator"
    /\ GrantRow(lastReq.token, 8, 1, 0) \in user_permissions
    /\ lastReq.role = "admin"
    /\ lastReq.targetRole = "user"
    /\ lastReq.res.status = 403
    /\ rbac_users[lastReq.userId] = "user"

\* An admin's role-change request that targets the admin itself
IsAdminSelfChange ==
    /\ IsRoleChange
    /\ lastReq.actorRole = "admin"
    /\ lastReq.token = lastReq.userId

\* C8 as claimed: an admin's request on itself is rejected when the new role
\* is not admin and allowed when it is admin.
C8_SelfAssignAdminAllowed ==
    IsAdminSelfChange =>
        /\ lastReq.role # "admin" => lastReq.res.status # 200
        /\ lastReq.role = "admin" => lastReq.res.status = 200
        /\ rbac_users[lastReq.userId] = "admin"

\* C8 as amended: an admin's request on itself is rejected with 403 for
\* every new role, admin included, and the admin's role stays admin.
C8_AdminSelfChangeRejected ==
    IsAdminSelfChange =>
        /\ lastReq.res.status = 403
        /\ rbac_users[lastReq.userId] = "admin"

C8_Witness ==
    /\ IsAdminSelfChange
    /\ lastReq.role = "admin"
    /\ lastReq.res = Response(403, "You don't have permission to assign admin role")
    /\ rbac_users[lastReq.userId] = "admin"

\* C9: a delete request whose target is the actor is rejected for every
\* actor role and the actor's row stays; an actor that passes the
\* delete_users check is stopped by the identity check, before the hierarchy
\* is consulted.
C9_NoSelfDeletion ==
    (lastReq.op = "DELETE" /\ lastReq.actorRole # "none"
        /\ lastReq.token = lastReq.userId) =>
        /\ lastReq.res.status # 200
        /\ rbac_users[lastReq.userId] = lastReq.actorRole
        /\ lastReq.userId \in authUsers
        /\ lastReq.actorRole \in {"admin", "super_admin"} =>
              lastReq.res = Response(400, "Cannot delete your own account")

C9_Witness ==
    /\ lastReq.op = "DELETE"
    /\ lastReq.actorRole = "admin"
    /\ lastReq.token = lastReq.userId
    /\ lastReq.res = Response(400, "Cannot delete your own account")
    /\ rbac_users[lastReq.userId] = "admin"

\* C10: a principal's row is removed only by a delete request of an actor
\* that holds delete_users and whose role manages the role the target holds
\* at that time.
C10_DeleteOnlyManagedTargets ==
    [][\A u \in UserIds :
          (rbac_users[u] # "none" /\ rbac_users'[u] = "none") =>
          /\ lastReq'.op = "DELETE"
          /\ lastReq'.userId = u
          /\ lastReq'.token \in UserIds
          /\ lastReq'.actorRole = rbac_users[lastReq'.token]
          /\ lastReq'.targetRole = rbac_users[u]
          /\ HoldsCapability(lastReq'.token, lastReq'.actorRole, "delete_users")
          /\ <<lastReq'.actorRole, rbac_users[u]>> \in ManageTable
          /\ lastReq'.actorRole \in {"admin", "super_admin"}
          /\ lastReq'.actorRole = "admin" =>
                rbac_users[u] \in {"user", "moderator"}]_vars

C10_Witness ==
    /\ lastReq.op = "DELETE"
    /\ lastReq.actorRole = "admin"
    /\ lastReq.targetRole = "moderator"
    /\ lastReq.res = Ok
    /\ rbac_users[lastReq.userId] = "none"

\* The requests C11 and C13 speak of: an authenticated grant that names a
\* target and a permission.
IsGrant ==
    /\ lastReq.op = "POST"
    /\ lastReq.actorRole # "none"
    /\ lastReq.userId # 0
    /\ lastReq.permissionId # 0

\* The requests C12 and C14 speak of: an authenticated revoke that names a
\* target and a permission.
IsRevoke ==
    /\ lastReq.op = "REVOKE"
    /\ lastReq.actorRole # "none"
    /\ lastReq.userId # 0
    /\ lastReq.permissionId # 0

\* C11: a grant request of an actor that holds grant_permissions (wildcard,
\* role default or explicit grant) is not refused as forbidden, and one of an
\* actor that does not hold it is answered 403 and leaves no grant row made
\* by that actor.
C11_GrantGatedByCapability ==
    IsGrant =>
        IF HoldsCapability(lastReq.token, lastReq.actorRole, "grant_permissions")
        THEN lastReq.res.status # 403
        ELSE /\ lastReq.res.status = 403
             /\ \A g \in user_permissions : g.granted_by # lastReq.token

\* C12: a revoke request of an actor that holds revoke_permissions (wildcard,
\* role default or explicit grant) is not refused as forbidden, and one of an
\* actor that does not hold it is answered 403 and removes no grant row.
C12_RevokeGatedByCapability ==
    [][(/\ lastReq'.op = "REVOKE"
        /\ lastReq'.actorRole # "none"
        /\ lastReq'.userId # 0
        /\ lastReq'.permissionId # 0) =>
          IF HoldsCapability(lastReq'.token, lastReq'.actorRole,
                             "revoke_permissions")
          THEN lastReq'.res.status # 403
          ELSE /\ lastReq'.res.status = 403
               /\ user_permissions' = user_permissions]_vars

\* C13: a grant request for a (userId, permissionId) pair that already has a
\* row leaves the grant table as it is, granted_by and granted_at of the
\* existing row included, and when the actor is authorized (super_admin) it
\* is answered 409 "Permission already granted", not 401 or 403.
C13_DuplicateGrantConflict ==
    [][(/\ lastReq'.op = "POST"
        /\ HasGrantRow(lastReq'.userId, lastReq'.permissionId)) =>
          /\ user_permissions' = user_permissions
          /\ lastReq'.actorRole = "super_admin" =>
                lastReq'.res = Response(409, "Permission already granted")]_vars

C13_Witness ==
    /\ IsGrant
    /\ lastReq.res.status = 409
    /\ Cardinality(user_permissions) = 1
    /\ \E g \in user_permissions :
          /\ g.user_id = lastReq.userId
          /\ g.permission_id = lastReq.permissionId
          /\ g.granted_by # lastReq.token
          /\ g.granted_at < now

\* C14: an authorized (super_admin) revoke that names a target and a
\* permission is answered with success and removes exactly the rows of that
\* pair; when the pair has no row the table is unchanged, and a revoke that
\* repeats the successful revoke before it has the same answer and changes
\* nothing.
C14_RevokeIdempotent ==
    [][(/\ lastReq'.op = "REVOKE"
        /\ lastReq'.actorRole = "super_admin"
        /\ lastReq'.userId # 0
        /\ lastReq'.permissionId # 0) =>
          /\ lastReq'.res = Ok
          /\ user_permissions' =
                {g \in user_permissions :
                    ~(/\ g.user_id = lastReq'.userId
                      /\ g.permission_id = lastReq'.permissionId)}
          /\ ~HasGrantRow(lastReq'.userId, lastReq'.permissionId) =>
                user_permissions' = user_permissions
          /\ (/\ lastReq.op = "REVOKE"
              /\ lastReq.res = Ok
              /\ lastReq.userId = lastReq'.userId
              /\ lastReq.permissionId = lastReq'.permissionId) =>
                /\ lastReq'.res = lastReq.res
                /\ user_permissions' = user_permissions]_vars

\* A revoke of a pair that never had a row: the one grant the run has made
\* is still in the table.
C14_Witness ==
    /\ IsRevoke
    /\ lastReq.res = Ok
    /\ now = 1
    /\ Cardinality(user_permissions) = 1
    /\ \A g \in user_permissions : g.user_id # lastReq.userId

\* C15: when the grants of an actor that is not super_admin gain a
\* permission p, the capability check is true for p afterwards and has for
\* every other action name the value it had before.
C15_GrantAddsOnlyItsCapability ==
    [][\A p \in PermissionIds :
          (/\ currentUserRole # "super_admin"
           /\ p \notin currentUserPermissions
           /\ currentUserPermissions' = currentUserPermissions \cup {p}) =>
             /\ canPerformAction(permissions[p])'
             /\ \A q \in ActionNames \ {permissions[p]} :
                   canPerformAction(q)' <=> canPerformAction(q)]_vars

C15_Witness ==
    /\ dashReq.fn = "fetchCurrentUserPermissions"
    /\ currentUserRole = "user"
    /\ dashReq.before = {}
    /\ currentUserPermissions = {4}
    /\ canPerformAction("delete_users")
    /\ ~canPerformAction("create_users")

\* C16: whatever grants the actor holds after any sequence of grants and
\* revokes, the capability check is true for every action of the role's
\* default set (every action for super_admin); so after the revoke of a
\* permission that is a role default.
C16_RoleDefaultsSurvive ==
    \A a \in ActionNames :
        (\/ currentUserRole = "super_admin"
         \/ a \in rolePermissions[currentUserRole]) => canPerformAction(a)

C16_Witness ==
    /\ dashReq.fn = "fetchCurrentUserPermissions"
    /\ currentUserRole = "admin"
    /\ dashReq.before = {4}
    /\ currentUserPermissions = {}
    /\ "delete_users" \in rolePermissions[currentUserRole]
    /\ canPerformAction("delete_users")

\* C17: a request to list, role change, delete, grant or revoke whose actor
\* cannot be resolved (no token, a token of no account, an account without
\* an rbac_users row) is answered 401 "Unauthorized" whatever else it
\* carries, and changes nothing in the stores.
C17_UnauthenticatedRejected ==
    [][(/\ lastReq'.op \in {"GET", "PUT", "DELETE", "POST", "REVOKE"}
        /\ \/ lastReq'.token = 0
           \/ lastReq'.token \notin authUsers
           \/ rbac_users[lastReq'.token] = "none") =>
          /\ lastReq'.res = Response(401, "Unauthorized")
          /\ lastReq'.users = {}
          /\ UNCHANGED <<rbac_users, authUsers, user_permissions, now>>]_vars

\* A grant by the token of an account that has no rbac_users row, for a
\* target and a permission that a super_admin could grant.
C17_Witness ==
    /\ lastReq.op = "POST"
    /\ lastReq.token \in authUsers
    /\ rbac_users[lastReq.token] = "none"
    /\ lastReq.userId \in authUsers
    /\ lastReq.permissionId \in PermissionIds
    /\ ~HasGrantRow(lastReq.userId, lastReq.permissionId)
    /\ lastReq.res = Response(401, "Unauthorized")

\* C18: a role-change, delete or grant request of a super_admin that names
\* another principal's id for which rbac_users holds no row is answered with
\* an error and changes nothing in the stores.
C18_MissingTargetIsError ==
    [][(/\ lastReq'.op \in {"PUT", "DELETE", "POST"}
        /\ lastReq'.actorRole = "super_admin"
        /\ lastReq'.userId # 0
        /\ lastReq'.userId # lastReq'.token
        /\ lastReq'.targetRole = "none"
        /\ lastReq'.op = "PUT" => lastReq'.role \in Role
        /\ lastReq'.op = "POST" => lastReq'.permissionId \in PermissionIds) =>
          /\ lastReq'.res.status # 200
          /\ UNCHANGED <<rbac_users, authUsers, user_permissions, now>>]_vars

\* C19: every grant row names a principal that has a row in rbac_users and a
\* permission of the catalog, and no two grant rows share (user_id,
\* permission_id); so no grant remains for a deleted principal.
C19_GrantsReferToPrincipals ==
    /\ \A g \in user_permissions :
          /\ g.user_id \in UserIds
          /\ rbac_users[g.user_id] # "none"
          /\ g.permission_id \in PermissionIds
    /\ \A g, h \in user_permissions :
          (g.user_id = h.user_id /\ g.permission_id = h.permission_id) => g = h

\* C20: every principal holds one role of the four-valued enumeration; an
\* authenticated role-change request that carries another value is answered
\* 400 ("Invalid role" when it names a target and a non-empty value) and
\* leaves the target's role as it was; a sign-up creates the principal with
\* role user, or creates no row.
C20_OneRoleOfEnumeration ==
    /\ \A u \in UserIds : rbac_users[u] \in Role \cup {"none"}
    /\ (/\ lastReq.op = "PUT"
        /\ lastReq.actorRole # "none"
        /\ lastReq.role \notin Role) =>
          /\ lastReq.res.status = 400
          /\ TargetRole(lastReq.userId) = lastReq.targetRole
          /\ (lastReq.userId # 0 /\ lastReq.role # "") =>
                lastReq.res.error = "Invalid role"
    /\ lastReq.op = "SIGNUP" =>
          /\ lastReq.targetRole = "none"
          /\ lastReq.userId \in authUsers
          /\ rbac_users[lastReq.userId] =
                IF lastReq.res = Ok THEN "user" ELSE "none"

C20_Witness ==
    /\ lastReq.op = "PUT"
    /\ lastReq.actorRole = "super_admin"
    /\ lastReq.role = "guest"
    /\ lastReq.targetRole = "user"
    /\ lastReq.res = Response(400, "Invalid role")
    /\ rbac_users[lastReq.userId] = "user"

\* The outcome kind a caller reads from an answer: its status, and for the
\* self-action answers its message.
OutcomeKind(res) ==
    CASE res.status = 200 -> "Success"
      [] res.status = 401 -> "Unauthenticated"
      [] res = Response(400, "Cannot delete your own account") ->
            "SelfActionDenied"
      [] res = Response(403, "Admins cannot change their own role") ->
            "SelfActionDenied"
      [] res.status = 403 -> "Forbidden"
      [] res.status = 409 -> "Conflict"
      [] res.status = 404 -> "NotFound"
      [] res.status = 400 -> "InvalidInput"
      [] OTHER -> "StoreError"

\* C21 as claimed: every self-targeted deletion and every self-targeted role
\* change of an admin is answered SelfActionDenied, and the duplicate grant
\* of an authorized actor Conflict.
C21_SelfActionAlwaysDenied ==
    [][/\ (/\ lastReq'.op = "DELETE"
            /\ lastReq'.actorRole # "none"
            /\ lastReq'.userId = lastReq'.token) =>
              OutcomeKind(lastReq'.res) = "SelfActionDenied"
       /\ (/\ lastReq'.op = "PUT"
            /\ lastReq'.actorRole = "admin"
            /\ lastReq'.userId = lastReq'.token
            /\ lastReq'.role \in Role) =>
              OutcomeKind(lastReq'.res) = "SelfActionDenied"
       /\ (/\ lastReq'.op = "POST"
            /\ lastReq'.actorRole = "super_admin"
            /\ HasGrantRow(lastReq'.userId, lastReq'.permissionId)) =>
              OutcomeKind(lastReq'.res) = "Conflict"]_vars

\* C21 as amended: a self-targeted deletion by an actor that holds
\* delete_users (admin, super_admin) and an admin's self-targeted change to
\* user or moderator are answered SelfActionDenied; a self-targeted deletion
\* by an actor without delete_users and an admin's self-targeted change to
\* admin or super_admin are answered Forbidden; the duplicate grant of a
\* super_admin is answered Conflict; and no answer of a rank or capability
\* failure equals a self-action answer.
C21_OutcomeKindsDistinct ==
    [][/\ (/\ lastReq'.op = "DELETE"
            /\ lastReq'.actorRole # "none"
            /\ lastReq'.userId = lastReq'.token) =>
              /\ lastReq'.actorRole \in {"admin", "super_admin"} =>
                    /\ OutcomeKind(lastReq'.res) = "SelfActionDenied"
                    /\ lastReq'.res.status = 400
              /\ lastReq'.actorRole \in {"user", "moderator"} =>
                    OutcomeKind(lastReq'.res) = "Forbidden"
       /\ (/\ lastReq'.op = "PUT"
            /\ lastReq'.actorRole = "admin"
            /\ lastReq'.userId = lastReq'.token
            /\ lastReq'.role \in Role) =>
              OutcomeKind(lastReq'.res) =
                 IF lastReq'.role \in {"user", "moderator"}
                 THEN "SelfActionDenied" ELSE "Forbidden"
       /\ (/\ lastReq'.op = "POST"
            /\ lastReq'.actorRole = "super_admin"
            /\ HasGrantRow(lastReq'.userId, lastReq'.permissionId)) =>
              /\ OutcomeKind(lastReq'.res) = "Conflict"
              /\ lastReq'.res.status = 409
       /\ (/\ lastReq'.op \in {"PUT", "DELETE"}
            /\ lastReq'.actorRole # "none"
            /\ lastReq'.userId # 0
            /\ lastReq'.userId # lastReq'.token
            /\ lastReq'.res.status # 200) =>
              OutcomeKind(lastReq'.res) # "SelfActionDenied"]_vars

C21_Witness ==
    /\ lastReq.op = "PUT"
    /\ lastReq.actorRole = "admin"
    /\ lastReq.userId = lastReq.token
    /\ lastReq.role = "moderator"
    /\ lastReq.res = Response(403, "Admins cannot change their own role")
    /\ OutcomeKind(lastReq.res) = "SelfActionDenied"
    /\ rbac_users[lastReq.userId] = "admin"

----------------------------------------------------------------------------
\* A PUT that passed every check made before its write
Authorized(req) ==
    req.op = "PUT" /\ req.pc = "done" /\ req.res.status \notin {400, 401, 403}

\* Two finished role changes of one principal, both past their checks
BothChanged(c, d) ==
    /\ c # d
    /\ inflight[c].op = "PUT" /\ inflight[d].op = "PUT"
    /\ inflight[c].userId = inflight[d].userId
    /\ inflight[c].pc = "done" /\ inflight[d].pc = "done"
    /\ Authorized(inflight[c]) /\ Authorized(inflight[d])

\* C22: when two concurrent role changes of the same principal have each
\* passed the checks made against the state they read, both are accepted,
\* and the principal ends with exactly one role, the one asked for by the
\* request whose store write came last.
C22_LastWriteWins ==
    \A c \in Clients, d \in Clients :
        BothChanged(c, d) =>
            /\ inflight[c].res = Ok /\ inflight[d].res = Ok
            /\ inflight[c].wrote # inflight[d].wrote
            /\ inflight[c].wrote > inflight[d].wrote =>
                   rbac_users[inflight[c].userId] = inflight[c].role
            /\ rbac_users[inflight[c].userId]
                   \in {inflight[c].role, inflight[d].role}

\* Two PUTs for user 2 asked for different roles, "b" read the target before
\* "a" wrote and wrote after it; both were accepted.
C22_Witness ==
    /\ BothChanged("a", "b")
    /\ inflight["a"].role # inflight["b"].role
    /\ inflight["a"].wrote = 1 /\ inflight["b"].wrote = 2
    /\ inflight["b"].targetRole # inflight["a"].role
    /\ rbac_users[inflight["b"].userId] = inflight["b"].role

----------------------------------------------------------------------------
\* Request c removes the row of its target in this step, for an admin.
AdminRemoves(c) ==
    /\ inflight[c].op = "DELETE"
    /\ inflight[c].actorRole = "admin"
    /\ inflight[c].pc = "write"
    /\ inflight'[c].pc = "authdel"
    /\ rbac_users[inflight[c].userId] # "none"
    /\ rbac_users'[inflight[c].userId] = "none"

\* C24: under every interleaving of concurrent role-change and delete
\* requests, when the delete request of an admin removes a principal's
\* record, that principal holds role user or moderator at that moment and
\* the actor still holds a role that may manage it: the roles read for the
\* authorization are not stale when the record is deleted.
C24_DeleteReadsNotStale ==
    [][\A c \in Clients :
          AdminRemoves(c) =>
              /\ rbac_users[inflight[c].userId] \in {"user", "moderator"}
              /\ <<rbac_users[inflight[c].token],
                    rbac_users[inflight[c].userId]>> \in ManageTable]_vars

----------------------------------------------------------------------------
\* The pair just evaluated composes: whatever the target role manages, the
\* actor role manages too.
Composes ==
    dashReq.result =>
        \A z \in Role : canManageRole(dashReq.role, z) =>
                           canManageRole(currentUserRole, z)

\* C23 as stated: canManageRole(actorRole, targetRole) over the four roles
\* is a strict partial order, that is irreflexive (no role manages itself),
\* asymmetric and transitive.
C23_StrictPartialOrder ==
    dashReq.fn = "canManageRole" =>
        /\ dashReq.role = currentUserRole => ~dashReq.result
        /\ dashReq.result => ~canManageRole(dashReq.role, currentUserRole)
        /\ Composes

\* C23, amended: canManageRole is transitive and antisymmetric (two
\* different roles never manage each other), and the only role that manages
\* itself is super_admin.
C23_OrderReflexiveAtSuperAdmin ==
    dashReq.fn = "canManageRole" =>
        /\ dashReq.role = currentUserRole =>
              (dashReq.result <=> currentUserRole = "super_admin")
        /\ (dashReq.result /\ dashReq.role # currentUserRole) =>
              ~canManageRole(dashReq.role, currentUserRole)
        /\ Composes

\* A super_admin asks whether it manages super_admin, and it does.
C23_Witness ==
    /\ dashReq.fn = "canManageRole"
    /\ currentUserRole = "super_admin"
    /\ dashReq.role = "super_admin"
    /\ dashReq.result

----------------------------------------------------------------------------
\* The roles ranked above a role: user < moderator < admin < super_admin
Above(role) ==
    CASE role = "user" -> {"moderator", "admin", "super_admin"}
      [] role = "moderator" -> {"admin", "super_admin"}
      [] role = "admin" -> {"super_admin"}
      [] OTHER -> {}

\* The last evaluation was a check against the role defaults alone, and it
\* was true.
DefaultCheckTrue ==
    /\ dashReq.fn = "canPerformAction"
    /\ currentUserPermissions = {}
    /\ dashReq.action \in PermissionNames
    /\ dashReq.result

\* C30 as stated: the default permission sets are monotone in role rank
\* (user within moderator, moderator within admin, super_admin holds all),
\* so no role-default check that is true for a role is false for a higher
\* role.
C30_DefaultsMonotone ==
    /\ rolePermissions["user"] \subseteq rolePermissions["moderator"]
    /\ rolePermissions["moderator"] \subseteq rolePermissions["admin"]
    /\ \A n \in PermissionNames : hasPermission("super_admin", n)
    /\ DefaultCheckTrue =>
          \A h \in Above(currentUserRole) : hasPermission(h, dashReq.action)

\* C30, amended: every default of user is a default of moderator, every
\* default of moderator other than access_moderator_panel is a default of
\* admin, and super_admin holds every permission; a role-default check that
\* is true stays true for every higher role, except access_moderator_panel,
\* which a moderator has and an admin has not.
C30_DefaultsMonotoneButPanel ==
    /\ rolePermissions["user"] \subseteq rolePermissions["moderator"]
    /\ rolePermissions["moderator"] \ {"access_moderator_panel"}
          \subseteq rolePermissions["admin"]
    /\ "access_moderator_panel" \in
          rolePermissions["moderator"] \ rolePermissions["admin"]
    /\ \A n \in PermissionNames : hasPermission("super_admin", n)
    /\ DefaultCheckTrue =>
          \A h \in Above(currentUserRole) :
              \/ hasPermission(h, dashReq.action)
              \/ /\ currentUserRole = "moderator"
                 /\ h = "admin"
                 /\ dashReq.action = "access_moderator_panel"

\* A moderator without grants checks access_moderator_panel: true for it,
\* false for admin, true again for super_admin.
C30_Witness ==
    /\ DefaultCheckTrue
    /\ currentUserRole = "moderator"
    /\ dashReq.action = "access_moderator_panel"
    /\ ~hasPermission("admin", dashReq.action)
    /\ hasPermission("super_admin", dashReq.action)

----------------------------------------------------------------------------
\* C29: Protected given a role prop renders its children only when loading
\* has finished and the logged-in user's role equals the prop; the children
\* are never rendered to a visitor that is not logged in, nor to a logged-in
\* user whose role differs from the required one.
C29_ChildrenOnlyForRole ==
    (dashReq.fn = "Protected" /\ dashReq.role # "" /\ dashReq.result) =>
        /\ ~dashReq.loading
        /\ dashReq.userId # 0
        /\ currentUserRole = dashReq.role

----------------------------------------------------------------------------
\* The request handled in this step was a role change, a deletion, a grant
\* or a revocation, and it was rejected.
Rejected ==
    /\ lastReq' # lastReq
    /\ lastReq'.op \in {"PUT", "DELETE", "POST", "REVOKE"}
    /\ lastReq'.res.status \in {400, 401, 403, 404, 409}

\* C27: a role-change, delete, grant or revoke request that is answered
\* with a rejection (unauthenticated, forbidden, invalid input, self-action,
\* conflict, not found) leaves every principal's role, the set of
\* principals and the set of grants as they were before the request.
C27_RejectionChangesNothing ==
    [][Rejected => UNCHANGED <<rbac_users, authUsers, user_permissions>>]_vars

\* A role change for an account without a row: the update statement ran,
\* matched nothing, and the answer is 404.
C27_Witness ==
    /\ lastReq.op = "PUT"
    /\ lastReq.res.status = 404
    /\ lastReq.userId \in UserIds
    /\ rbac_users[lastReq.userId] = "none"

----------------------------------------------------------------------------
\* What PUT /api/admin/users would answer the session for the role change
\* the dashboard has just decided on
ServerAnswer ==
    PutResponse(getCurrentUserRole(authUserId), dashReq.userId, dashReq.role)

\* C25: for every actor role r and new role x, canManageRole(r, x) implies
\* that assign_<x>_role is among r's defaults or r is super_admin; hence,
\* for every actor role, grant set, target and new role, the gate of
\* handleRoleChange (capability, hierarchy, admin self-demotion guard) lets
\* the request through exactly when the PUT handler (hierarchy and admin
\* self check) would authorize it for the same actor role.
C25_ClientGateMatchesServer ==
    /\ \A r \in Role, x \in Role :
          canManageRole(r, x) =>
              r = "super_admin" \/ AssignCapability(x) \in rolePermissions[r]
    /\ dashReq.fn = "handleRoleChange" =>
          (dashReq.result <=> ServerAnswer.status \notin {401, 403})

\* An admin without the assign_moderator_role grant in its cache makes
\* another user moderator: the gate lets it through and the server accepts.
C25_Witness ==
    /\ dashReq.fn = "handleRoleChange"
    /\ currentUserRole = "admin"
    /\ 7 \notin currentUserPermissions
    /\ dashReq.role = "moderator"
    /\ dashReq.userId # authUserId
    /\ dashReq.result
    /\ ServerAnswer = Ok

\* C26: for every actor role, grant set and target, the dashboard offers
\* Delete (canPerformAction('delete_users'), canManageRole(actorRole,
\* target.role), target is not the actor) exactly when the DELETE handler
\* would accept the deletion for the same actor and target.
C26_DeleteOfferedIffAccepted ==
    dashReq.fn = "DeleteOffered" =>
        (dashReq.result <=>
            DeleteResponse(getCurrentUserRole(authUserId), dashReq.userId) = Ok)

----------------------------------------------------------------------------
\* The handleRoleChange call in flight ends in this step, in failure.
CallFails ==
    /\ pending.active
    /\ ~pending'.active
    /\ ~dashReq'.result

\* C28: when the request of handleRoleChange fails (non-OK answer or
\* exception), the optimistic update is undone so that the list equals the
\* list from before the call with every realtime INSERT, UPDATE and DELETE
\* event received while the request was in flight still applied, and
\* currentUserRole is the actor's role as the server last reported it.
C28_FailureKeepsEvents ==
    [][CallFails => /\ users' = pending.expected
                    /\ currentUserRole' = pending.expectedRole]_vars


====
